---- MODULE Spec2Model ----
(***************************************************************************)
(* Collab-board: the board state container (zustand store wrapped in the   *)
(* zundo temporal middleware), its debounced persistence, the undo/redo    *)
(* history and the realtime sync bridge.                                   *)
(*                                                                         *)
(* A board object keeps the fields the store operations read or write:     *)
(* id, type, x, y, source, target.  width, height, text, color and the     *)
(* connector display properties are copied through unchanged by every      *)
(* operation modelled here and are left out.                               *)
(***************************************************************************)
EXTENDS Integers, Sequences, FiniteSets, TLC

\* ---------------------------------------------------------------- bounds
MaxObjects  == 6      \* longest objects sequence the model builds
MaxId       == 6      \* ids handed out by crypto.randomUUID / uuid
MaxHistory  == 2      \* recorded mutations are stopped at this many entries
MaxInflight == 2      \* remote writes in flight at once
MaxFeed     == 1      \* change notifications waiting for delivery
MaxTimers   == 3      \* timer handles of the event loop
MaxRT       == 3      \* length of an undo/redo round-trip scenario
MaxSyncId   == 4      \* ids handed out while the remote store is modelled
MaxSelect   == 2      \* objects a shift-click selection grows to
MaxCalls    == 2      \* processCommand invocations awaiting at once
MaxPhaseTimers == 2   \* pending setPhase('idle') timeouts

\* ----------------------------------------------------- program constants
limit_short == MaxRT - 1
limit       == 100    \* temporal option limit
DEBOUNCE    == 600    \* setTimeout delay of scheduleSyncDebounced (ms)
OFFSET_STEP == 20     \* pasteClipboard offset step
OFFSET      == 20     \* duplicateSelection offset
DONE_DISPLAY  == 2200 \* delay of setPhase('idle') after 'done' (ms)
ERROR_DISPLAY == 4000 \* delay of setPhase('idle') after 'error' (ms)
PAD           == 24   \* createFrameFromSelection: padding around the selection
TITLE_SPACE   == 28   \* createFrameFromSelection: room for the label
TickMs      == DEBOUNCE \div 3     \* granularity of the passage of time (ms)

NoId        == 0                      \* obj.source?.objectId of an object without endpoints
NoHandle    == 0                      \* syncTimeout before the first setTimeout
RemoteId    == MaxId + 1              \* id of an object made by another client
BoardIds    == {"b1", "b2"}
NoEndpoint  == [objectId |-> NoId, point |-> "none"]

\* ------------------------------------------------------------- variables
VARIABLES
  boardId, objects, selectedObjectIds, clipboard, clipboardMode, pasteCount,
  isSyncing, lastSynced,
  panX, panY, zoom, activeTool,                \* BoardState
  pastStates, futureStates, isTracking,        \* temporal (zundo) state
  syncTimeout, timers,                         \* module-level timer, event-loop timers
  inflight, db, feed, channel,                 \* remote store and realtime channel
  nextId,                                      \* next fresh uuid
  phase, errorMessage, calls, phaseTimers,     \* useAIAgent hook state
  peer,                                        \* a second client on the same board
  lastOp, preRemote, rt, seen                  \* history variables

storeVars    == <<boardId, objects, selectedObjectIds, clipboard, clipboardMode,
                  pasteCount, isSyncing, lastSynced>>
viewVars     == <<panX, panY, zoom, activeTool>>
temporalVars == <<pastStates, futureStates, isTracking>>
timerVars    == <<syncTimeout, timers>>
aiVars       == <<phase, errorMessage, calls, phaseTimers>>
remoteVars   == <<inflight, db, feed, channel>>
vars == <<boardId, objects, selectedObjectIds, clipboard, clipboardMode, pasteCount,
          isSyncing, lastSynced, pastStates, futureStates, isTracking,
          panX, panY, zoom, activeTool,
          syncTimeout, timers, inflight, db, feed, channel, nextId,
          phase, errorMessage, calls, phaseTimers, peer,
          lastOp, preRemote, rt, seen>>

\* --------------------------------------------------------------- helpers
Ids(seq) == {seq[i].id : i \in DOMAIN seq}

includes(seq, x) == \E i \in DOMAIN seq : seq[i] = x

IsConnector(o) == o.type = "connector"

Rect(id, x, y) ==
  [id |-> id, type |-> "rectangle", x |-> x, y |-> y,
   source |-> NoEndpoint, target |-> NoEndpoint]

Connector(id, s, t) ==
  [id |-> id, type |-> "connector", x |-> 0, y |-> 0,
   source |-> [objectId |-> s, point |-> "right"],
   target |-> [objectId |-> t, point |-> "left"]]

Front(seq) == SubSeq(seq, 1, Len(seq) - 1)
Last(seq)  == seq[Len(seq)]

\* -------------------------------------------------- temporal middleware
\* partialize: (state) => ({ objects: state.objects })
partialize_state(objs) == [objects |-> objs, selectedObjectIds |-> <<>>]
partialize(objs) == [objects |-> objs]

equality_never(replaced) == FALSE
\* equality: (a, b) => a.objects === b.objects.  Arrays are compared by
\* reference; replaced tells whether the set() call assigned a new array.
equality(replaced) == ~replaced

\* _handleSet: drop the oldest entry at the limit, push the previous state
handleSet(past, prev) ==
  IF Len(past) >= limit THEN Append(Tail(past), prev) ELSE Append(past, prev)

\* the wrapped set(): record the pre-set state unless paused or equal
pastAfterSet(tracking, replaced, past, prevObjs) ==
  IF tracking /\ ~equality(replaced) THEN handleSet(past, partialize(prevObjs)) ELSE past

futureAfterSet(tracking, replaced, future) ==
  IF tracking /\ ~equality(replaced) THEN <<>> ELSE future

clear_skipped(states) == states

\* clear(): empties a history stack
clear(states) == <<>>

pause_forgotten == TRUE
resume_forgotten == FALSE
pause  == FALSE     \* pause():  set({ isTracking: false })
resume == TRUE      \* resume(): set({ isTracking: true })

\* set() of a new objects array by a store operation
Recorded(prevObjs) ==
  /\ pastStates'   = pastAfterSet(isTracking, TRUE, pastStates, prevObjs)
  /\ futureStates' = futureAfterSet(isTracking, TRUE, futureStates)
  /\ isTracking'   = isTracking

\* set() by a store operation that keeps the objects array
KeptObjects ==
  /\ pastStates'   = pastAfterSet(isTracking, FALSE, pastStates, objects)
  /\ futureStates' = futureAfterSet(isTracking, FALSE, futureStates)
  /\ isTracking'   = isTracking

\* ------------------------------------------------ scheduleSyncDebounced
clearTimeout_none(ts, h) == ts
\* clearTimeout(h): a pending timer with that handle is cancelled
clearTimeout(ts, h) == {t \in ts : t.handle # h}

\* setTimeout returns a handle no pending timer has
NewHandle(ts) ==
  CHOOSE h \in 1..MaxTimers :
    /\ h \notin {t.handle : t \in ts}
    /\ \A g \in 1..MaxTimers : g \notin {t.handle : t \in ts} => h <= g

scheduleSyncDebounced ==
  LET cleared == clearTimeout(timers, syncTimeout)
  IN /\ timers' = cleared \cup {[handle |-> NewHandle(cleared), left |-> DEBOUNCE]}
     /\ syncTimeout' = NewHandle(cleared)

\* room left in the model for one more recorded mutation; the operations of a
\* round-trip scenario are counted by the scenario instead
CanRecord == Len(pastStates) < MaxHistory \/ rt.phase \in {"ops", "fill"}

\* ----------------------------------------------------- store operations
setObjects_resync(objs, tracking) ==
  /\ objects' = objs
  /\ pastStates'   = pastAfterSet(tracking, TRUE, pastStates, objects)
  /\ futureStates' = futureAfterSet(tracking, TRUE, futureStates)
  /\ scheduleSyncDebounced
\* setObjects: (objects) => set({ objects }); no scheduleSyncDebounced call.
\* tracking is the temporal isTracking flag at the time of the call.
setObjects(objs, tracking) ==
  /\ objects' = objs
  /\ pastStates'   = pastAfterSet(tracking, TRUE, pastStates, objects)
  /\ futureStates' = futureAfterSet(tracking, TRUE, futureStates)
  /\ UNCHANGED <<syncTimeout, timers>>

addObject(object) ==
  /\ CanRecord
  /\ Len(objects) < MaxObjects
  /\ objects' = Append(objects, object)
  /\ Recorded(objects)
  /\ scheduleSyncDebounced
  /\ nextId' = nextId + 1
  /\ lastOp' = "addObject"
  /\ UNCHANGED viewVars
  /\ UNCHANGED <<boardId, selectedObjectIds, clipboard, clipboardMode, pasteCount,
                 isSyncing, lastSynced, remoteVars, preRemote>>

AddRect ==
  /\ nextId <= MaxId
  /\ addObject(Rect(nextId, 100, 100))

AddConnector ==
  /\ nextId <= MaxId
  /\ \E s, t \in {o.id : o \in {objects[i] : i \in DOMAIN objects}} :
       /\ \E i \in DOMAIN objects : objects[i].id = s /\ ~IsConnector(objects[i])
       /\ \E i \in DOMAIN objects : objects[i].id = t /\ ~IsConnector(objects[i])
       /\ addObject(Connector(nextId, s, t))

updateObject(id, updates) ==
  /\ CanRecord
  /\ objects' = [i \in DOMAIN objects |->
                   IF objects[i].id = id
                   THEN [objects[i] EXCEPT !.x = updates.x, !.y = updates.y]
                   ELSE objects[i]]
  /\ Recorded(objects)
  /\ scheduleSyncDebounced
  /\ lastOp' = "updateObject"
  /\ UNCHANGED viewVars
  /\ UNCHANGED <<boardId, selectedObjectIds, clipboard, clipboardMode, pasteCount,
                 isSyncing, lastSynced, remoteVars, nextId, preRemote>>

\* ---------------------------------------------------------- group drag
\* the objects after handleGroupDragEnd: the dragged object goes to its final
\* position; when it is part of a selection of two or more, every other
\* selected object that is rendered and is no connector moves by the same delta
groupDragObjects(objs, sel, draggedId, to) ==
  LET group == includes(sel, draggedId) /\ Len(sel) >= 2
      start == CHOOSE o \in {objs[i] : i \in DOMAIN objs} : o.id = draggedId
      dx    == to.x - start.x
      dy    == to.y - start.y
  IN [i \in DOMAIN objs |->
        IF objs[i].id = draggedId
        THEN [objs[i] EXCEPT !.x = to.x, !.y = to.y]
        ELSE IF group /\ includes(sel, objs[i].id) /\ ~IsConnector(objs[i])
             THEN [objs[i] EXCEPT !.x = @ + dx, !.y = @ + dy]
             ELSE objs[i]]

groupDragPast_uncapped(past, preObjects) == Append(past, [objects |-> preObjects])
\* pastStates: [...(s.pastStates.length >= 100 ? s.pastStates.slice(1) : s.pastStates),
\*              { objects: preObjects }]
groupDragPast(past, preObjects) ==
  Append(IF Len(past) >= 100 THEN Tail(past) ELSE past, [objects |-> preObjects])

\* handleGroupDragEnd: pause(), the updateObject calls, resume(), then the
\* manual push of one entry.  Every updateObject call runs with recording
\* paused, so the calls are recorded (or not) alike.
handleGroupDragEnd(draggedId, to) ==
  /\ CanRecord
  /\ \E i \in DOMAIN objects : objects[i].id = draggedId /\ ~IsConnector(objects[i])
  /\ objects' = groupDragObjects(objects, selectedObjectIds, draggedId, to)
  /\ pastStates' = groupDragPast(pastAfterSet(pause, TRUE, pastStates, objects), objects)
  /\ futureStates' = <<>>
  /\ isTracking' = resume
  /\ scheduleSyncDebounced
  /\ lastOp' = "groupDrag"
  /\ UNCHANGED viewVars
  /\ UNCHANGED <<boardId, selectedObjectIds, clipboard, clipboardMode, pasteCount,
                 isSyncing, lastSynced, remoteVars, nextId, preRemote>>

deleteObject_noCascade(objs, id) == SelectSeq(objs, LAMBDA obj : obj.id # id)
\* the filter of deleteObject
deleteFilter(objs, id) ==
  SelectSeq(objs, LAMBDA obj :
    /\ obj.id # id
    /\ ~(IsConnector(obj) /\ (obj.source.objectId = id \/ obj.target.objectId = id)))

deleteObject(id) ==
  /\ CanRecord
  /\ objects' = deleteFilter(objects, id)
  /\ selectedObjectIds' = SelectSeq(selectedObjectIds, LAMBDA sid : sid # id)
  /\ Recorded(objects)
  /\ scheduleSyncDebounced
  /\ lastOp' = "deleteObject"
  /\ UNCHANGED viewVars
  /\ UNCHANGED <<boardId, clipboard, clipboardMode, pasteCount,
                 isSyncing, lastSynced, remoteVars, nextId, preRemote>>

selectObject(id, multiSelect) ==
  /\ selectedObjectIds' =
       IF multiSelect
       THEN IF includes(selectedObjectIds, id)
            THEN SelectSeq(selectedObjectIds, LAMBDA sid : sid # id)
            ELSE Append(selectedObjectIds, id)
       ELSE <<id>>
  /\ KeptObjects
  /\ lastOp' = "selectObject"
  /\ UNCHANGED viewVars
  /\ UNCHANGED <<boardId, objects, clipboard, clipboardMode, pasteCount, isSyncing,
                 lastSynced, timerVars, remoteVars, nextId, preRemote>>

setSelectedObjectIds(ids) ==
  /\ selectedObjectIds' = ids
  /\ KeptObjects
  /\ lastOp' = "setSelectedObjectIds"
  /\ UNCHANGED viewVars
  /\ UNCHANGED <<boardId, objects, clipboard, clipboardMode, pasteCount, isSyncing,
                 lastSynced, timerVars, remoteVars, nextId, preRemote>>

clearSelection ==
  /\ selectedObjectIds' = <<>>
  /\ KeptObjects
  /\ lastOp' = "clearSelection"
  /\ UNCHANGED viewVars
  /\ UNCHANGED <<boardId, objects, clipboard, clipboardMode, pasteCount, isSyncing,
                 lastSynced, timerVars, remoteVars, nextId, preRemote>>

\* the objects a copy or cut puts on the clipboard
selected(objs, sel) == SelectSeq(objs, LAMBDA o : includes(sel, o.id))

implicitConnectors(objs, sel) ==
  SelectSeq(objs, LAMBDA o :
    /\ IsConnector(o)
    /\ ~includes(sel, o.id)
    /\ includes(sel, o.source.objectId)
    /\ includes(sel, o.target.objectId))

copySelection ==
  /\ lastOp' = "copySelection"
  /\ UNCHANGED viewVars
  /\ IF Len(selectedObjectIds) = 0
     THEN UNCHANGED <<clipboard, clipboardMode, pasteCount, temporalVars>>
     ELSE /\ clipboard' = selected(objects, selectedObjectIds)
                           \o implicitConnectors(objects, selectedObjectIds)
          /\ clipboardMode' = "copy"
          /\ pasteCount' = 0
          /\ KeptObjects
  /\ UNCHANGED <<boardId, objects, selectedObjectIds, isSyncing, lastSynced,
                 timerVars, remoteVars, nextId, preRemote>>

\* the filter of cutSelection: clipboard objects and connectors attached to a cut object
cutFilter(objs, sel, clip) ==
  SelectSeq(objs, LAMBDA o :
    /\ o.id \notin Ids(clip)
    /\ ~(IsConnector(o) /\ (includes(sel, o.source.objectId)
                              \/ includes(sel, o.target.objectId))))

cutSelection ==
  /\ lastOp' = "cutSelection"
  /\ UNCHANGED viewVars
  /\ IF Len(selectedObjectIds) = 0
     THEN UNCHANGED <<objects, selectedObjectIds, clipboard, clipboardMode, pasteCount,
                      temporalVars, timerVars>>
     ELSE LET clip == selected(objects, selectedObjectIds)
                        \o implicitConnectors(objects, selectedObjectIds)
          IN /\ CanRecord
             /\ clipboard' = clip
             /\ clipboardMode' = "cut"
             /\ pasteCount' = 0
             /\ objects' = cutFilter(objects, selectedObjectIds, clip)
             /\ selectedObjectIds' = <<>>
             /\ Recorded(objects)
             /\ scheduleSyncDebounced
  /\ UNCHANGED <<boardId, isSyncing, lastSynced, remoteVars, nextId, preRemote>>

\* ---- cloning (pasteClipboard, duplicateSelection)
nonConnectors(seq) == SelectSeq(seq, LAMBDA o : ~IsConnector(o))
connectors(seq)    == SelectSeq(seq, LAMBDA o : IsConnector(o))

\* idMap.get(id) ?? id, where the i-th non-connector of src got id base + i - 1
idMapGet(src, base, id) ==
  IF \E i \in DOMAIN src : src[i].id = id
  THEN base + (CHOOSE i \in DOMAIN src :
                 src[i].id = id /\ \A j \in DOMAIN src : src[j].id = id => j <= i) - 1
  ELSE id

cloneShapes(src, base, offset) ==
  [i \in DOMAIN src |-> [src[i] EXCEPT !.id = base + i - 1,
                                       !.x = @ + offset, !.y = @ + offset]]

cloneConnectors(conns, src, base, connBase) ==
  [j \in DOMAIN conns |->
     [conns[j] EXCEPT !.id = connBase + j - 1,
                      !.source.objectId = idMapGet(src, base, @),
                      !.target.objectId = idMapGet(src, base, @)]]

pasteOffset_fixed(count) == OFFSET_STEP
\* const offset = (pasteCount + 1) * OFFSET_STEP
pasteOffset(count) == (count + 1) * OFFSET_STEP

pasteNewObjects(clip, count, base) ==
  LET shapes == nonConnectors(clip)
  IN cloneShapes(shapes, base, pasteOffset(count))
       \o cloneConnectors(connectors(clip), shapes, base, base + Len(shapes))

clipboardAfterPaste_keep(clip, mode) == clip
\* clipboard: clipboardMode === 'cut' ? [] : state.clipboard
clipboardAfterPaste(clip, mode) == IF mode = "cut" THEN <<>> ELSE clip

pasteClipboard ==
  /\ lastOp' = "pasteClipboard"
  /\ UNCHANGED viewVars
  /\ IF Len(clipboard) = 0
     THEN UNCHANGED <<objects, selectedObjectIds, clipboard, clipboardMode, pasteCount,
                      temporalVars, timerVars, nextId>>
     ELSE LET newObjects == pasteNewObjects(clipboard, pasteCount, nextId)
          IN /\ CanRecord
             /\ Len(objects) + Len(newObjects) <= MaxObjects
             /\ nextId + Len(newObjects) - 1 <= MaxId
             /\ objects' = objects \o newObjects
             /\ selectedObjectIds' = [i \in DOMAIN newObjects |-> newObjects[i].id]
             /\ pasteCount' = pasteCount + 1
             /\ clipboard' = clipboardAfterPaste(clipboard, clipboardMode)
             /\ clipboardMode' = IF clipboardMode = "cut" THEN "null" ELSE clipboardMode
             /\ nextId' = nextId + Len(newObjects)
             /\ Recorded(objects)
             /\ scheduleSyncDebounced
  /\ UNCHANGED <<boardId, isSyncing, lastSynced, remoteVars, preRemote>>

duplicateNewObjects(objs, sel, base) ==
  LET shapes == nonConnectors(selected(objs, sel))
  IN cloneShapes(shapes, base, OFFSET)
       \o cloneConnectors(implicitConnectors(objs, sel), shapes, base, base + Len(shapes))

duplicateSelection ==
  /\ lastOp' = "duplicateSelection"
  /\ UNCHANGED viewVars
  /\ IF Len(selectedObjectIds) = 0
     THEN UNCHANGED <<objects, selectedObjectIds, temporalVars, timerVars, nextId>>
     ELSE LET newObjects == duplicateNewObjects(objects, selectedObjectIds, nextId)
          IN /\ CanRecord
             /\ Len(objects) + Len(newObjects) <= MaxObjects
             /\ nextId + Len(newObjects) - 1 <= MaxId
             /\ objects' = objects \o newObjects
             /\ selectedObjectIds' = [i \in DOMAIN newObjects |-> newObjects[i].id]
             /\ nextId' = nextId + Len(newObjects)
             /\ Recorded(objects)
             /\ scheduleSyncDebounced
  /\ UNCHANGED <<boardId, clipboard, clipboardMode, pasteCount, isSyncing, lastSynced,
                 remoteVars, preRemote>>

deleteSelectedFilter_noCascade(objs, sel) == SelectSeq(objs, LAMBDA o : ~includes(sel, o.id))
\* the filter of deleteSelectedObjects
deleteSelectedFilter(objs, sel) ==
  SelectSeq(objs, LAMBDA o :
    /\ ~includes(sel, o.id)
    /\ ~(IsConnector(o) /\ (includes(sel, o.source.objectId)
                              \/ includes(sel, o.target.objectId))))

deleteSelectedObjects ==
  /\ lastOp' = "deleteSelectedObjects"
  /\ UNCHANGED viewVars
  /\ IF Len(selectedObjectIds) = 0
     THEN UNCHANGED <<objects, selectedObjectIds, temporalVars, timerVars>>
     ELSE /\ CanRecord
          /\ objects' = deleteSelectedFilter(objects, selectedObjectIds)
          /\ selectedObjectIds' = <<>>
          /\ Recorded(objects)
          /\ scheduleSyncDebounced
  /\ UNCHANGED <<boardId, clipboard, clipboardMode, pasteCount, isSyncing, lastSynced,
                 remoteVars, nextId, preRemote>>

clearObjects ==
  /\ CanRecord
  /\ objects' = <<>>
  /\ selectedObjectIds' = <<>>
  /\ Recorded(objects)
  /\ scheduleSyncDebounced
  /\ lastOp' = "clearObjects"
  /\ UNCHANGED viewVars
  /\ UNCHANGED <<boardId, clipboard, clipboardMode, pasteCount, isSyncing, lastSynced,
                 remoteVars, nextId, preRemote>>

\* ------------------------------------------------- frames and layout
Frame(id, x, y) ==
  [id |-> id, type |-> "frame", x |-> x, y |-> y,
   source |-> NoEndpoint, target |-> NoEndpoint]

MinOf(S) == CHOOSE m \in S : \A n \in S : m <= n

\* the selected objects a frame is drawn around
frameSelected(objs, sel) ==
  SelectSeq(objs, LAMBDA o : includes(sel, o.id) /\ ~IsConnector(o))

\* newFrame: the top left corner of the bounding box, padded (the objects of
\* the model carry no size, so the frame's width and height are left out)
newFrame(around, id) ==
  Frame(id,
        MinOf({around[i].x : i \in DOMAIN around}) - PAD,
        MinOf({around[i].y : i \in DOMAIN around}) - PAD - TITLE_SPACE)

createFrameFromSelection ==
  /\ lastOp' = "createFrameFromSelection"
  /\ UNCHANGED viewVars
  /\ IF Len(selectedObjectIds) = 0 \/ Len(frameSelected(objects, selectedObjectIds)) = 0
     THEN UNCHANGED <<objects, selectedObjectIds, temporalVars, timerVars, nextId>>
     ELSE /\ CanRecord
          /\ Len(objects) < MaxObjects
          /\ nextId <= MaxId
          /\ objects' = <<newFrame(frameSelected(objects, selectedObjectIds), nextId)>>
                          \o objects
          /\ selectedObjectIds' = <<nextId>>
          /\ nextId' = nextId + 1
          /\ Recorded(objects)
          /\ scheduleSyncDebounced
  /\ UNCHANGED <<boardId, clipboard, clipboardMode, pasteCount, isSyncing, lastSynced,
                 remoteVars, preRemote>>

\* positions.find((p) => p.id === obj.id): the first position naming the id
findPosition(positions, id) ==
  positions[CHOOSE i \in DOMAIN positions :
              positions[i].id = id /\ \A j \in DOMAIN positions : positions[j].id = id => i <= j]

rearrangeObjects(positions) ==
  /\ CanRecord
  /\ objects' = [i \in DOMAIN objects |->
                   IF \E j \in DOMAIN positions : positions[j].id = objects[i].id
                   THEN [objects[i] EXCEPT
                           !.x = findPosition(positions, objects[i].id).x,
                           !.y = findPosition(positions, objects[i].id).y]
                   ELSE objects[i]]
  /\ Recorded(objects)
  /\ scheduleSyncDebounced
  /\ lastOp' = "rearrangeObjects"
  /\ UNCHANGED viewVars
  /\ UNCHANGED <<boardId, selectedObjectIds, clipboard, clipboardMode, pasteCount,
                 isSyncing, lastSynced, remoteVars, nextId, preRemote>>

\* ------------------------------------------------------- undo and redo
\* temporal.getState().undo(): pop the newest past entry, push the current
\* state onto the future stack; the restore goes through the unwrapped set
undo_resync ==
  /\ lastOp' = "undo"
  /\ UNCHANGED viewVars
  /\ IF Len(pastStates) > 0
     THEN /\ objects' = Last(pastStates).objects
          /\ pastStates' = Front(pastStates)
          /\ futureStates' = Append(futureStates, partialize(objects))
     ELSE UNCHANGED <<objects, pastStates, futureStates>>
  /\ scheduleSyncDebounced
  /\ UNCHANGED <<boardId, selectedObjectIds, clipboard, clipboardMode, pasteCount,
                 isSyncing, lastSynced, isTracking, remoteVars, nextId,
                 preRemote>>

undo ==
  /\ lastOp' = "undo"
  /\ UNCHANGED viewVars
  /\ IF Len(pastStates) > 0
     THEN /\ objects' = Last(pastStates).objects
          /\ pastStates' = Front(pastStates)
          /\ futureStates' = Append(futureStates, partialize(objects))
     ELSE UNCHANGED <<objects, pastStates, futureStates>>
  /\ UNCHANGED <<boardId, selectedObjectIds, clipboard, clipboardMode, pasteCount,
                 isSyncing, lastSynced, isTracking, timerVars, remoteVars, nextId,
                 preRemote>>

redo ==
  /\ lastOp' = "redo"
  /\ UNCHANGED viewVars
  /\ IF Len(futureStates) > 0
     THEN /\ objects' = Last(futureStates).objects
          /\ futureStates' = Front(futureStates)
          /\ pastStates' = Append(pastStates, partialize(objects))
     ELSE UNCHANGED <<objects, pastStates, futureStates>>
  /\ UNCHANGED <<boardId, selectedObjectIds, clipboard, clipboardMode, pasteCount,
                 isSyncing, lastSynced, isTracking, timerVars, remoteVars, nextId,
                 preRemote>>

\* ------------------------------------------------- viewport and tool
setActiveTool(tool) ==
  /\ activeTool' = tool
  /\ KeptObjects
  /\ lastOp' = "setActiveTool"
  /\ UNCHANGED <<storeVars, panX, panY, zoom, timerVars, remoteVars, nextId, preRemote>>

setPan(x, y) ==
  /\ panX' = x
  /\ panY' = y
  /\ KeptObjects
  /\ lastOp' = "setPan"
  /\ UNCHANGED <<storeVars, zoom, activeTool, timerVars, remoteVars, nextId, preRemote>>

setZoom(z) ==
  /\ zoom' = z
  /\ KeptObjects
  /\ lastOp' = "setZoom"
  /\ UNCHANGED <<storeVars, panX, panY, activeTool, timerVars, remoteVars, nextId, preRemote>>

\* ----------------------------------------------- time and the debounce
\* TickMs pass; a timer that is due fires before more time passes
Tick ==
  /\ timers # {}
  /\ \A t \in timers : t.left > 0
  /\ timers' = {[t EXCEPT !.left = @ - TickMs] : t \in timers}
  /\ UNCHANGED <<storeVars, viewVars, temporalVars, syncTimeout, remoteVars, nextId,
                 lastOp, preRemote>>

\* syncToDatabase up to its await: read boardId and objects, return when no
\* board is open, else set isSyncing and issue the update
syncStart ==
  IF boardId = "null"
  THEN UNCHANGED <<isSyncing, inflight>>
  ELSE /\ Len(inflight) < MaxInflight
       /\ isSyncing' = TRUE
       /\ inflight' = Append(inflight, [board |-> boardId, objects |-> objects])

TimerFire_dropped ==
  \E t \in timers :
    /\ t.left = 0
    /\ timers' = timers \ {t}
    /\ lastOp' = "timerFire"
    /\ UNCHANGED viewVars
    /\ UNCHANGED <<storeVars, temporalVars, syncTimeout, remoteVars, nextId, preRemote>>

\* the setTimeout callback of scheduleSyncDebounced: () => get().syncToDatabase()
TimerFire ==
  \E t \in timers :
    /\ t.left = 0
    /\ timers' = timers \ {t}
    /\ syncStart
    /\ lastOp' = "timerFire"
    /\ UNCHANGED viewVars
    /\ UNCHANGED <<boardId, objects, selectedObjectIds, clipboard, clipboardMode,
                   pasteCount, lastSynced, temporalVars, syncTimeout, db, feed, channel,
                   nextId, preRemote>>

RemoveAt(seq, i) == SubSeq(seq, 1, i - 1) \o SubSeq(seq, i + 1, Len(seq))

lastSyncedAfter_stamped(error, previous) == "date"

\* lastSynced: error ? get().lastSynced : new Date()
lastSyncedAfter(error, previous) == IF error THEN previous ELSE "date"

\* the update settles: the row is replaced and the change feed notifies the
\* subscribers of that board (error = FALSE), or the write is rejected;
\* syncToDatabase resumes after its await
SyncSettle(i, error) ==
  /\ i \in DOMAIN inflight
  /\ inflight' = RemoveAt(inflight, i)
  /\ IF error
     THEN UNCHANGED <<db, feed>>
     ELSE /\ db' = [db EXCEPT ![inflight[i].board] = inflight[i].objects]
          /\ IF channel = inflight[i].board
             THEN /\ Len(feed) < MaxFeed
                  /\ feed' = Append(feed, inflight[i])
             ELSE UNCHANGED feed
  /\ isSyncing' = FALSE
  /\ lastSynced' = lastSyncedAfter(error, lastSynced)
  /\ lastOp' = "syncSettle"
  /\ UNCHANGED viewVars
  /\ UNCHANGED <<boardId, objects, selectedObjectIds, clipboard, clipboardMode,
                 pasteCount, temporalVars, timerVars, channel, nextId, preRemote>>

\* the Save button of the dock: handleSave awaits syncToDatabase; its own
\* syncing flag is set only while that write is in flight, so it never stops
\* a click made when no write is in flight
ManualSave ==
  /\ syncStart
  /\ lastOp' = "manualSave"
  /\ UNCHANGED viewVars
  /\ UNCHANGED <<boardId, objects, selectedObjectIds, clipboard, clipboardMode,
                 pasteCount, lastSynced, temporalVars, timerVars, db, feed, channel,
                 nextId, preRemote>>

\* ------------------------------------------------- remote sync bridge
\* snapshots other clients write
RemoteSnapshots == {<<>>, <<Rect(RemoteId, 100, 100)>>}

\* another client's whole-row update of a board
OtherClientWrite(b, snapshot) ==
  /\ db' = [db EXCEPT ![b] = snapshot]
  /\ db[b] # snapshot
  /\ IF channel = b
     THEN /\ Len(feed) < MaxFeed
          /\ feed' = Append(feed, [board |-> b, objects |-> snapshot])
     ELSE UNCHANGED feed
  /\ lastOp' = "otherClientWrite"
  /\ UNCHANGED viewVars
  /\ UNCHANGED <<storeVars, temporalVars, timerVars, inflight, channel, nextId,
                 preRemote>>

\* the postgres_changes handler of useBoardSync
RemoteApply ==
  /\ Len(feed) > 0
  /\ feed' = Tail(feed)
  /\ setObjects(Head(feed).objects, pause)
  /\ isTracking' = resume
  /\ preRemote' = objects
  /\ lastOp' = "remoteApply"
  /\ UNCHANGED viewVars
  /\ UNCHANGED <<boardId, selectedObjectIds, clipboard, clipboardMode, pasteCount,
                 isSyncing, lastSynced, inflight, db, channel, nextId>>

\* the load effect of the Board page: setBoardId(data.id); setObjects(data.objects ?? [])
LoadBoard(b) ==
  /\ CanRecord
  /\ boardId' = b
  /\ setObjects(db[b], isTracking)
  /\ isTracking' = isTracking
  /\ lastOp' = "loadBoard"
  /\ UNCHANGED viewVars
  /\ UNCHANGED <<selectedObjectIds, clipboard, clipboardMode, pasteCount, isSyncing,
                 lastSynced, remoteVars, nextId, preRemote>>

\* the effect of useBoardSync, run when boardId changed: clear() the history,
\* leave the old channel and subscribe to the new board
SyncEffect ==
  /\ boardId # "null"
  /\ channel # boardId
  /\ pastStates' = clear(pastStates)
  /\ futureStates' = clear(futureStates)
  /\ channel' = boardId
  /\ feed' = <<>>
  /\ lastOp' = "syncEffect"
  /\ UNCHANGED viewVars
  /\ UNCHANGED <<storeVars, isTracking, timerVars, inflight, db, nextId, preRemote>>

\* ------------------------------------------------------- AI agent hook
\* a typed command: a sequence of characters
Blank == " "

RECURSIVE trimStart(_)
trimStart(command) ==
  IF command # <<>> /\ Head(command) = Blank THEN trimStart(Tail(command)) ELSE command

RECURSIVE trimEnd(_)
trimEnd(command) ==
  IF command # <<>> /\ command[Len(command)] = Blank
  THEN trimEnd(SubSeq(command, 1, Len(command) - 1))
  ELSE command

\* String.prototype.trim
trim(command) == trimEnd(trimStart(command))

\* how the fetch of the command-translation service ends:
\*   fetchRejected  the service is unreachable, fetch throws
\*   notOk          response.ok is false, the body is JSON
\*   notJson        response.json() throws
\*   noToolCalls    an OK JSON body without tool_calls / toolCalls
\*   zeroToolCalls  an OK JSON body whose tool_calls is []
\*   toolCalls      an OK JSON body with a createRectangle call
Outcomes == {"fetchRejected", "notOk", "notJson", "noToolCalls", "zeroToolCalls",
             "toolCalls"}
Thrown == {"fetchRejected", "notOk", "notJson"}

\* err.message of what the try block throws
message(outcome) ==
  CASE outcome = "fetchRejected" -> "Failed to fetch"
    [] outcome = "notOk"         -> "Server error 500"
    [] outcome = "notJson"       -> "Unexpected end of JSON input"

aiStoreUnchanged ==
  /\ UNCHANGED viewVars
  /\ UNCHANGED <<storeVars, temporalVars, timerVars, remoteVars, nextId, preRemote>>

\* processCommand up to the await of fetch
processCommand(command) ==
  /\ lastOp' = "processCommand"
  /\ aiStoreUnchanged
  /\ IF trim(command) = <<>>
     THEN UNCHANGED aiVars
     ELSE /\ Len(calls) < MaxCalls
          /\ phase' = "thinking"
          /\ errorMessage' = ""
          /\ calls' = Append(calls, "fetch")
          /\ UNCHANGED phaseTimers

\* handleSubmit of AICommandInput: canSend = !!command.trim() && !loading
handleSubmit(command) ==
  /\ trim(command) # <<>>
  /\ phase \notin {"thinking", "creating"}
  /\ processCommand(trim(command))

\* processCommand after the fetch: the catch block, the branch for zero tool
\* calls, or setPhase('creating') before the 60 ms pause
FetchSettle(i, outcome) ==
  /\ i \in DOMAIN calls
  /\ calls[i] = "fetch"
  /\ lastOp' = outcome
  /\ aiStoreUnchanged
  /\ IF outcome \in Thrown
     THEN /\ Len(phaseTimers) < MaxPhaseTimers
          /\ errorMessage' = message(outcome)
          /\ phase' = "error"
          /\ phaseTimers' = Append(phaseTimers, ERROR_DISPLAY)
          /\ calls' = RemoveAt(calls, i)
     ELSE IF outcome \in {"noToolCalls", "zeroToolCalls"}
     THEN /\ Len(phaseTimers) < MaxPhaseTimers
          /\ phase' = "done"
          /\ phaseTimers' = Append(phaseTimers, DONE_DISPLAY)
          /\ calls' = RemoveAt(calls, i)
          /\ UNCHANGED errorMessage
     ELSE /\ phase' = "creating"
          /\ calls' = [calls EXCEPT ![i] = "creating"]
          /\ UNCHANGED <<errorMessage, phaseTimers>>

\* processCommand after the 60 ms pause: executeToolCall of createRectangle,
\* then setPhase('done') and the timeout back to 'idle'
RunToolCalls(i) ==
  /\ i \in DOMAIN calls
  /\ calls[i] = "creating"
  /\ Len(phaseTimers) < MaxPhaseTimers
  /\ AddRect
  /\ phase' = "done"
  /\ phaseTimers' = Append(phaseTimers, DONE_DISPLAY)
  /\ calls' = RemoveAt(calls, i)
  /\ UNCHANGED errorMessage

\* time passes until the next setPhase('idle') timeout is due
MinLeft ==
  CHOOSE m \in {phaseTimers[i] : i \in DOMAIN phaseTimers} :
    \A i \in DOMAIN phaseTimers : m <= phaseTimers[i]

PhaseTick ==
  /\ phaseTimers # <<>>
  /\ MinLeft > 0
  /\ phaseTimers' = [i \in DOMAIN phaseTimers |-> phaseTimers[i] - MinLeft]
  /\ lastOp' = "phaseTick"
  /\ aiStoreUnchanged
  /\ UNCHANGED <<phase, errorMessage, calls>>

\* the callback () => setPhase('idle')
PhaseTimerFire(i) ==
  /\ i \in DOMAIN phaseTimers
  /\ phaseTimers[i] = 0
  /\ phaseTimers' = RemoveAt(phaseTimers, i)
  /\ phase' = "idle"
  /\ lastOp' = "phaseTimerFire"
  /\ aiStoreUnchanged
  /\ UNCHANGED <<errorMessage, calls>>

\* ------------------------------------------------------- initial state
\* the board b1 as persisted earlier: two shapes and a connector between them
StoredBoard == <<Rect(1, 100, 100), Rect(2, 300, 100), Connector(3, 1, 2)>>
FirstFreshId == Len(StoredBoard) + 1

\* the second client: its store's objects, the time left on its debounce
\* timer, its writes in flight and the notifications queued for its handler.
\* It has loaded the stored board and is subscribed to it.
NoTimer == 0 - 1
PeerInit == [objects |-> StoredBoard, left |-> NoTimer, inflight |-> <<>>, feed |-> <<>>]

RtIdle == [phase |-> "idle", n |-> 0, k |-> 0, base |-> <<>>, top |-> <<>>]

Init ==
  /\ boardId = "null"
  /\ objects = <<>>
  /\ selectedObjectIds = <<>>
  /\ clipboard = <<>>
  /\ clipboardMode = "null"
  /\ pasteCount = 0
  /\ isSyncing = FALSE
  /\ lastSynced = "null"
  /\ panX = 0
  /\ panY = 0
  /\ zoom = 1
  /\ activeTool = "select"
  /\ pastStates = <<>>
  /\ futureStates = <<>>
  /\ isTracking = TRUE
  /\ syncTimeout = NoHandle
  /\ timers = {}
  /\ inflight = <<>>
  /\ db = [b \in BoardIds |-> IF b = "b1" THEN StoredBoard ELSE <<>>]
  /\ feed = <<>>
  /\ channel = "null"
  /\ nextId = FirstFreshId
  /\ phase = "idle"
  /\ errorMessage = ""
  /\ calls = <<>>
  /\ phaseTimers = <<>>
  /\ peer = PeerInit
  /\ lastOp = "init"
  /\ preRemote = <<>>
  /\ rt = RtIdle
  /\ seen = {}

\* ------------------------------------------------------ specifications
\* user input: the id of a rendered object, or any id an AI tool call names
ObjectIds == Ids(objects)
AnyId     == 1..MaxId
DragTo    == {[x |-> 300, y |-> 100]}
DragBack  == {[x |-> 100, y |-> 260]}


\* the Board page renders the whiteboard once a board is loaded, and the
\* effect of useBoardSync has run by the time the user can act on it
SyncBoards == {"b1"}
BoardOpen == boardId # "null" /\ channel = boardId

\* one write at a time: scenarios that do not study overlapping writes issue
\* a write only when none is in flight
Serial == inflight = <<>>

\* a user action on the open board; an action of the environment
User(A) == BoardOpen /\ A /\ UNCHANGED <<rt, seen>> /\ UNCHANGED <<aiVars, peer>>
Env(A)  == A /\ UNCHANGED <<rt, seen>> /\ UNCHANGED <<aiVars, peer>>

\* deleting and cutting on a loaded board, with selection, undo and redo
NextDelete ==
  \/ Env(boardId = "null" /\ \E b \in SyncBoards : LoadBoard(b))
  \/ Env(SyncEffect)
  \/ User(\E id \in ObjectIds, m \in BOOLEAN : (m => Len(selectedObjectIds) < MaxSelect) /\ selectObject(id, m))
  \/ User(clearSelection)
  \/ User(nextId = FirstFreshId /\ AddConnector)
  \/ User(\E id \in AnyId : deleteObject(id))
  \/ User(deleteSelectedObjects)
  \/ User(cutSelection)
  \/ User(clearObjects)
  \/ User(undo)
  \/ User(redo)

SpecDelete == Init /\ [][NextDelete]_vars

\* the clipboard on a loaded board: copy, cut, paste, duplicate
NextClip ==
  \/ Env(boardId = "null" /\ \E b \in SyncBoards : LoadBoard(b))
  \/ Env(SyncEffect)
  \/ User(\E id \in ObjectIds, m \in BOOLEAN : (m => Len(selectedObjectIds) < MaxSelect) /\ selectObject(id, m))
  \/ User(copySelection)
  \/ User(cutSelection)
  \/ User(pasteClipboard)
  \/ User(duplicateSelection)
  \/ User(\E id \in ObjectIds, u \in DragTo : updateObject(id, u))
  \/ User(\E id \in ObjectIds : deleteObject(id))

SpecClip == Init /\ [][NextClip]_vars

\* an undo/redo round trip: from a state of the open board, rt.n recorded
\* mutations, then rt.k calls of undo, then as many calls of redo.  rt.base is
\* the objects sequence before the first mutation, rt.top the one before the
\* first undo.
RTOp(A) ==
  /\ BoardOpen
  /\ rt.phase \in {"idle", "ops"}
  /\ rt.n < MaxRT
  /\ A
  /\ rt' = [phase |-> "ops", n |-> rt.n + 1, k |-> 0,
            base |-> IF rt.phase = "idle" THEN objects ELSE rt.base, top |-> <<>>]
  /\ UNCHANGED seen
  /\ UNCHANGED <<aiVars, peer>>

RTUndo ==
  /\ BoardOpen
  /\ rt.phase \in {"idle", "ops", "undo"}
  /\ rt.k < rt.n \/ Len(pastStates) > 0
  /\ undo
  /\ rt' = [phase |-> "undo", n |-> rt.n, k |-> rt.k + 1, base |-> rt.base,
            top |-> IF rt.phase = "undo" THEN rt.top ELSE objects]
  /\ UNCHANGED seen
  /\ UNCHANGED <<aiVars, peer>>

RTRedo ==
  /\ rt.phase \in {"undo", "redo"}
  /\ rt.k > 0
  /\ redo
  /\ rt' = [rt EXCEPT !.phase = "redo", !.k = @ - 1]
  /\ UNCHANGED seen
  /\ UNCHANGED <<aiVars, peer>>

Idle(A) == rt.phase = "idle" /\ A /\ UNCHANGED <<rt, seen>> /\ UNCHANGED <<aiVars, peer>>

NextRT ==
  \/ Idle(boardId = "null" /\ \E b \in SyncBoards : LoadBoard(b))
  \/ Idle(SyncEffect)
  \/ Idle(BoardOpen /\ \E id \in ObjectIds : selectObject(id, FALSE))
  \/ Idle(BoardOpen /\ \E id \in ObjectIds : deleteObject(id))
  \/ Idle(BoardOpen /\ undo)
  \/ RTOp(AddRect)
  \/ RTOp(\E id \in ObjectIds, u \in DragTo : updateObject(id, u))
  \/ RTOp(\E id \in AnyId : deleteObject(id))
  \/ RTOp(Len(selectedObjectIds) > 0 /\ deleteSelectedObjects)
  \/ RTOp(Len(selectedObjectIds) > 0 /\ cutSelection)
  \/ RTOp(Len(selectedObjectIds) > 0 /\ duplicateSelection)
  \/ RTOp(clearObjects)
  \/ RTUndo
  \/ RTRedo

SpecRT == Init /\ [][NextRT]_vars

\* local edits of one client against the remote store: debounce timer, writes,
\* other clients' writes and the change feed

NextSync ==
  \/ Env(\E b \in SyncBoards : LoadBoard(b))
  \/ Env(SyncEffect)
  \/ User(nextId <= MaxSyncId /\ AddRect)
  \/ User(\E id \in ObjectIds, u \in DragTo : updateObject(id, u))
  \/ Env(Tick)
  \/ Env(Serial /\ TimerFire)
  \/ Env(\E i \in 1..MaxInflight, e \in BOOLEAN : SyncSettle(i, e))
  \/ Env(\E b \in SyncBoards, snap \in RemoteSnapshots : OtherClientWrite(b, snap))
  \/ Env(RemoteApply)

SpecSync == Init /\ [][NextSync]_vars

\* the sync bridge and the undo history: remote snapshots applied between
\* local edits, undo and redo
NextBridge ==
  \/ Env(\E b \in SyncBoards : LoadBoard(b))
  \/ Env(SyncEffect)
  \/ User(nextId <= MaxSyncId /\ AddRect)
  \/ User(\E id \in ObjectIds, u \in DragTo : updateObject(id, u))
  \/ User(undo)
  \/ User(redo)
  \/ Env(\E b \in SyncBoards, snap \in RemoteSnapshots : OtherClientWrite(b, snap))
  \/ Env(RemoteApply)

SpecBridge == Init /\ [][NextBridge]_vars

\* viewport, tool and selection changes between edits, undo and redo
MarqueeIds == {[i \in DOMAIN objects |-> objects[i].id], <<Head(objects).id>>}
PanTo      == {[x |-> 0, y |-> 0], [x |-> 50, y |-> -30]}
ZoomTo     == {1, 2}
Tools      == {"select", "connector"}

NextView ==
  \/ Env(boardId = "null" /\ \E b \in SyncBoards : LoadBoard(b))
  \/ Env(SyncEffect)
  \/ User(\E id \in ObjectIds : selectObject(id, FALSE))
  \/ User(Len(objects) > 0 /\ \E ids \in MarqueeIds : setSelectedObjectIds(ids))
  \/ User(clearSelection)
  \/ User(copySelection)
  \/ User(pasteCount = 0 /\ clipboard = <<Head(StoredBoard)>> /\ pasteClipboard)
  \/ User(\E p \in PanTo : setPan(p.x, p.y))
  \/ User(\E z \in ZoomTo : setZoom(z))
  \/ User(\E t \in Tools : setActiveTool(t))
  \/ User(nextId = FirstFreshId /\ \E id \in ObjectIds, u \in DragTo : handleGroupDragEnd(id, u))
  \/ User(undo)
  \/ User(redo)

SpecView == Init /\ [][NextView]_vars

\* group drags of a selection, each followed by undo and redo; edits and an
\* undo before the drag leave entries on both history stacks
NextDrag ==
  \/ Idle(boardId = "null" /\ \E b \in SyncBoards : LoadBoard(b))
  \/ Idle(SyncEffect)
  \/ Idle(BoardOpen /\ \E id \in ObjectIds : selectObject(id, FALSE))
  \/ Idle(BoardOpen /\ Len(objects) > 0 /\ \E ids \in MarqueeIds : setSelectedObjectIds(ids))
  \/ Idle(BoardOpen /\ clearSelection)
  \/ Idle(BoardOpen /\ \E id \in ObjectIds, u \in DragTo : updateObject(id, u))
  \/ Idle(BoardOpen /\ undo)
  \/ RTOp(\E id \in ObjectIds, u \in DragTo \cup DragBack : handleGroupDragEnd(id, u))
  \/ RTUndo
  \/ RTRedo

SpecDrag == Init /\ [][NextDrag]_vars

\* every mutating operation of the store, the debounce timer and the writes
\* it starts.  The event loop runs a due timer callback and resumes a settled
\* await, and time passes: weak fairness of those steps.
\* Each operation is tried as the first edit of the session; updateObject
\* and undo alternate without end on a board with nothing selected or copied
\* and no write accepted yet.
Unedited == nextId = FirstFreshId /\ pastStates = <<>> /\ futureStates = <<>>

Plain == selectedObjectIds = <<>> /\ clipboard = <<>> /\ lastSynced = "null"

Positions == {<<[id |-> 1, x |-> 80, y |-> 80]>>,
              <<[id |-> RemoteId, x |-> 80, y |-> 80]>>}

NextPersist ==
  \/ Env(boardId = "null" /\ \E b \in SyncBoards : LoadBoard(b))
  \/ Env(SyncEffect)
  \/ User(Unedited /\ \E id \in ObjectIds : selectObject(id, FALSE))
  \/ User(Unedited /\ Len(selectedObjectIds) > 0 /\ copySelection)
  \/ User(Unedited /\ AddRect)
  \/ User(Plain /\ Len(pastStates) < 1 /\ \E id \in ObjectIds, u \in DragTo : updateObject(id, u))
  \/ User(Unedited /\ \E id \in ObjectIds : deleteObject(id))
  \/ User(Unedited /\ Len(selectedObjectIds) > 0 /\ deleteSelectedObjects)
  \/ User(Unedited /\ Len(selectedObjectIds) > 0 /\ cutSelection)
  \/ User(Unedited /\ Len(clipboard) > 0 /\ pasteClipboard)
  \/ User(Unedited /\ Len(selectedObjectIds) > 0 /\ duplicateSelection)
  \/ User(Unedited /\ Len(frameSelected(objects, selectedObjectIds)) > 0
            /\ createFrameFromSelection)
  \/ User(Unedited /\ \E positions \in Positions : rearrangeObjects(positions))
  \/ User(Unedited /\ clearObjects)
  \/ User(Plain /\ futureStates = <<>> /\ undo)
  \/ Env(Tick)
  \/ Env(Serial /\ TimerFire)
  \/ Env(\E i \in 1..MaxInflight, e \in BOOLEAN : SyncSettle(i, e))
  \/ Env(RemoteApply)

EventLoopFairness ==
  /\ WF_vars(Env(Tick))
  /\ WF_vars(Env(Serial /\ TimerFire))
  /\ WF_vars(Env(\E i \in 1..MaxInflight, e \in BOOLEAN : SyncSettle(i, e)))
  /\ WF_vars(Env(RemoteApply))

SpecPersist == Init /\ [][NextPersist]_vars /\ EventLoopFairness

\* mutations that name any id, present or not, after copy and paste
NextAbsent ==
  \/ Idle(boardId = "null" /\ \E b \in SyncBoards : LoadBoard(b))
  \/ Idle(SyncEffect)
  \/ Idle(BoardOpen /\ \E id \in ObjectIds : selectObject(id, FALSE))
  \/ Idle(BoardOpen /\ Len(selectedObjectIds) > 0 /\ copySelection)
  \/ RTOp(Len(clipboard) > 0 /\ pasteClipboard)
  \/ RTOp(\E id \in AnyId, u \in DragTo : updateObject(id, u))
  \/ RTOp(\E id \in AnyId : deleteObject(id))
  \/ RTOp(\E positions \in Positions : rearrangeObjects(positions))
  \/ RTUndo
  \/ RTRedo

SpecAbsent == Init /\ [][NextAbsent]_vars

\* the two handlers that pause recording, between local edits
NextArmed ==
  \/ Env(boardId = "null" /\ \E b \in SyncBoards : LoadBoard(b))
  \/ Env(SyncEffect)
  \/ User(Len(objects) > 0 /\ \E ids \in MarqueeIds : setSelectedObjectIds(ids))
  \/ User(\E id \in ObjectIds, u \in DragTo : updateObject(id, u))
  \/ User(\E id \in ObjectIds, u \in DragTo \cup DragBack : handleGroupDragEnd(id, u))
  \/ User(undo)
  \/ Env(\E b \in SyncBoards, snap \in RemoteSnapshots : OtherClientWrite(b, snap))
  \/ Env(RemoteApply)

SpecArmed == Init /\ [][NextArmed]_vars

\* two clients on the stored board.  Every successful write is notified, in
\* commit order, to both clients, the writer included.
notified(queue, snapshot) == Append(queue, snapshot)

\* updateObject on the second client: set() then scheduleSyncDebounced
PeerUpdate(id, updates) ==
  /\ peer' = [peer EXCEPT
                !.objects = [i \in DOMAIN peer.objects |->
                               IF peer.objects[i].id = id
                               THEN [peer.objects[i] EXCEPT !.x = updates.x, !.y = updates.y]
                               ELSE peer.objects[i]],
                !.left = DEBOUNCE]
  /\ lastOp' = "peerUpdate"
  /\ UNCHANGED <<storeVars, viewVars, temporalVars, timerVars, remoteVars, nextId, preRemote>>

\* time passes for the timers of both clients
TickAll ==
  /\ timers # {} \/ peer.left # NoTimer
  /\ \A t \in timers : t.left > 0
  /\ peer.left # 0
  /\ timers' = {[t EXCEPT !.left = @ - TickMs] : t \in timers}
  /\ peer' = [peer EXCEPT !.left = IF @ = NoTimer THEN NoTimer ELSE @ - TickMs]
  /\ UNCHANGED <<storeVars, viewVars, temporalVars, syncTimeout, remoteVars, nextId,
                 lastOp, preRemote>>

\* the second client's debounce timer fires: syncToDatabase issues the update
PeerTimerFire ==
  /\ peer.left = 0
  /\ peer.inflight = <<>>
  /\ peer' = [peer EXCEPT !.left = NoTimer, !.inflight = Append(@, peer.objects)]
  /\ lastOp' = "peerTimerFire"
  /\ UNCHANGED <<storeVars, viewVars, temporalVars, timerVars, remoteVars, nextId, preRemote>>

\* a write of the second client succeeds: the row is replaced and both
\* subscribers are notified
PeerSettle ==
  /\ peer.inflight # <<>>
  /\ Len(feed) < MaxFeed
  /\ Len(peer.feed) < MaxFeed
  /\ db' = [db EXCEPT ![boardId] = Head(peer.inflight)]
  /\ feed' = notified(feed, [board |-> boardId, objects |-> Head(peer.inflight)])
  /\ peer' = [peer EXCEPT !.inflight = Tail(@), !.feed = notified(@, Head(peer.inflight))]
  /\ lastOp' = "peerSettle"
  /\ UNCHANGED <<storeVars, viewVars, temporalVars, timerVars, inflight, channel, nextId,
                 preRemote>>

\* a write of the first client succeeds
SharedSettle(i) ==
  /\ SyncSettle(i, FALSE)
  /\ Len(peer.feed) < MaxFeed
  /\ peer' = [peer EXCEPT !.feed = notified(@, inflight[i].objects)]

\* the postgres_changes handler of the second client: setObjects(payload)
PeerApply ==
  /\ peer.feed # <<>>
  /\ peer' = [peer EXCEPT !.objects = Head(peer.feed), !.feed = Tail(@)]
  /\ lastOp' = "peerApply"
  /\ UNCHANGED <<storeVars, viewVars, temporalVars, timerVars, remoteVars, nextId, preRemote>>

Both(A) == BoardOpen /\ A /\ UNCHANGED <<rt, seen>> /\ UNCHANGED aiVars

NextPair ==
  \/ Env(boardId = "null" /\ \E b \in SyncBoards : LoadBoard(b))
  \/ Env(SyncEffect)
  \/ User(pastStates = <<>> /\ \E u \in DragTo : updateObject(Head(objects).id, u))
  \/ User(futureStates = <<>> /\ undo)
  \/ User(Serial /\ TimerFire)
  \/ User(RemoteApply)
  \/ Both(\E u \in DragBack : Len(peer.objects) > 0 /\ PeerUpdate(Head(peer.objects).id, u))
  \/ Both(TickAll)
  \/ Both(PeerTimerFire)
  \/ Both(PeerSettle)
  \/ Both(\E i \in 1..MaxInflight : SharedSettle(i))
  \/ Both(PeerApply)

SpecPair == Init /\ [][NextPair]_vars

\* a board switch with a debounce timer pending and notifications of the
\* board left behind still arriving.  Here seen holds the pairs <<b, objs>> of
\* a board id and an objects sequence that was loaded for b, received in a
\* notification of b, or made by an edit of such a sequence while b was the
\* store's board.
Opened(b) == {p \in seen : p[1] = b}

Loaded(b) ==
  /\ LoadBoard(b)
  /\ seen' = seen \cup {<<b, db[b]>>}
  /\ UNCHANGED rt
  /\ UNCHANGED <<aiVars, peer>>

Edited(A) ==
  /\ BoardOpen
  /\ A
  /\ seen' = IF <<boardId, objects>> \in seen THEN seen \cup {<<boardId, objects'>>} ELSE seen
  /\ UNCHANGED rt
  /\ UNCHANGED <<aiVars, peer>>

Received ==
  /\ RemoteApply
  /\ seen' = seen \cup {<<Head(feed).board, Head(feed).objects>>}
  /\ UNCHANGED rt
  /\ UNCHANGED <<aiVars, peer>>

NextCross ==
  \/ (boardId = "null" \/ channel = boardId) /\ \E b \in BoardIds : Opened(b) = {} /\ Loaded(b)
  \/ Env(SyncEffect)
  \/ Edited(\E u \in DragTo : Len(objects) > 0 /\ updateObject(Head(objects).id, u))
  \/ Env(Tick)
  \/ Env(Serial /\ TimerFire)
  \/ Env(\E i \in 1..MaxInflight, e \in BOOLEAN : SyncSettle(i, e))
  \/ Env(\E b \in BoardIds, snap \in RemoteSnapshots : OtherClientWrite(b, snap))
  \/ Received

SpecCross == Init /\ [][NextCross]_vars

\* writes that fail: edits, debounce timers, the Save button, and updates
\* the remote store accepts or rejects
NextSave ==
  \/ Env(boardId = "null" /\ \E b \in SyncBoards : LoadBoard(b))
  \/ Env(SyncEffect)
  \/ User(nextId <= MaxSyncId /\ AddRect)
  \/ User(\E id \in ObjectIds, u \in DragTo : updateObject(id, u))
  \/ User(\E id \in ObjectIds : selectObject(id, FALSE))
  \/ User(copySelection)
  \/ Env(Tick)
  \/ Env(Serial /\ TimerFire)
  \/ User(Serial /\ ManualSave)
  \/ Env(\E i \in 1..MaxInflight, e \in BOOLEAN : SyncSettle(i, e))
  \/ Env(RemoteApply)

SpecSave == Init /\ [][NextSave]_vars

\* undo and redo between edits, debounce timers, the Save button and writes
NextRestore ==
  \/ Env(boardId = "null" /\ \E b \in SyncBoards : LoadBoard(b))
  \/ Env(SyncEffect)
  \/ User(\E id \in ObjectIds, u \in DragTo : updateObject(id, u))
  \/ User(undo)
  \/ User(redo)
  \/ Env(Tick)
  \/ Env(Serial /\ TimerFire)
  \/ User(Serial /\ ManualSave)
  \/ Env(\E i \in 1..MaxInflight, e \in BOOLEAN : SyncSettle(i, e))
  \/ Env(RemoteApply)

SpecRestore == Init /\ [][NextRestore]_vars

\* overlapping writes: a debounce timer may fire while an earlier write is in
\* flight; the Save button ignores clicks while its own save is in flight
NextOverlap ==
  \/ Env(boardId = "null" /\ \E b \in SyncBoards : LoadBoard(b))
  \/ Env(SyncEffect)
  \/ User(\E id \in ObjectIds, u \in DragTo \cup DragBack : updateObject(id, u))
  \/ Env(Tick)
  \/ Env(TimerFire)
  \/ User(Serial /\ ManualSave)
  \/ Env(\E i \in 1..MaxInflight, e \in BOOLEAN : SyncSettle(i, e))
  \/ Env(RemoteApply)

SpecOverlap == Init /\ [][NextOverlap]_vars

\* switching between boards: every step also records in seen the objects
\* sequences the store has held since the sync effect last ran
Visit(A) ==
  /\ A
  /\ seen' = IF lastOp' = "syncEffect" THEN {objects'} ELSE seen \cup {objects'}
  /\ UNCHANGED rt
  /\ UNCHANGED <<aiVars, peer>>

NextSwitch ==
  \/ Visit((boardId = "null" \/ channel = boardId) /\ \E b \in BoardIds : LoadBoard(b))
  \/ Visit(SyncEffect)
  \/ Visit(BoardOpen /\ AddRect)
  \/ Visit(BoardOpen /\ \E id \in ObjectIds, u \in DragTo : updateObject(id, u))
  \/ Visit(BoardOpen /\ undo)
  \/ Visit(BoardOpen /\ redo)

SpecSwitch == Init /\ [][NextSwitch]_vars

\* AI commands on an open board
Commands == {<<Blank>>, <<"a">>, <<Blank, "a", Blank>>}

Agent(A) == BoardOpen /\ A /\ UNCHANGED <<rt, seen, peer>>

NextAgent ==
  \/ Env(boardId = "null" /\ \E b \in SyncBoards : LoadBoard(b))
  \/ Env(SyncEffect)
  \/ User(\E id \in ObjectIds, u \in DragTo : updateObject(id, u))
  \/ Agent(\E c \in Commands : handleSubmit(c))
  \/ Agent(\E i \in 1..MaxCalls, o \in Outcomes : FetchSettle(i, o))
  \/ Agent(\E i \in 1..MaxCalls : RunToolCalls(i))
  \/ Agent(PhaseTick)
  \/ Agent(\E i \in 1..MaxPhaseTimers : PhaseTimerFire(i))

SpecAgent == Init /\ [][NextAgent]_vars

\* one session on a board: local edits, undo and redo, and remote snapshots
\* that reach the client through the sync bridge only
NextSession ==
  \/ Env(boardId = "null" /\ \E b \in SyncBoards : LoadBoard(b))
  \/ Env(SyncEffect)
  \/ User(nextId <= MaxSyncId /\ AddRect)
  \/ User(\E id \in ObjectIds, u \in DragTo : updateObject(id, u))
  \/ User(undo)
  \/ User(redo)
  \/ Env(\E b \in SyncBoards, snap \in RemoteSnapshots : OtherClientWrite(b, snap))
  \/ Env(RemoteApply)

SpecSession == Init /\ [][NextSession]_vars

\* filling the history to its limit: one object is dragged again and again,
\* alone (updateObject) or through the group drag handler, with undo and redo
\* in between
Fill(A) ==
  /\ BoardOpen
  /\ rt.phase \in {"idle", "fill"}
  /\ A
  /\ rt' = [RtIdle EXCEPT !.phase = "fill"]
  /\ UNCHANGED seen
  /\ UNCHANGED <<aiVars, peer>>

NextHistory ==
  \/ Idle(boardId = "null" /\ \E b \in SyncBoards : LoadBoard(b))
  \/ Idle(SyncEffect)
  \/ Fill(\E u \in DragTo : updateObject(Head(objects).id, u))
  \/ Fill(\E u \in DragTo : handleGroupDragEnd(Head(objects).id, u))
  \/ Fill(undo)
  \/ Fill(redo)

SpecHistory == Init /\ [][NextHistory]_vars

\* ============================================================ properties
\* ids removed from the board by the step
Removed == Ids(objects) \ Ids(objects')
\* no connector left on the board by the step has an endpoint the step removed
NoRefToRemoved ==
  \A i \in DOMAIN objects' :
    IsConnector(objects'[i]) =>
      /\ objects'[i].source.objectId \notin Removed
      /\ objects'[i].target.objectId \notin Removed

\* C1 (selection-subset invariant): every id in selectedObjectIds is the id of
\* an object currently in objects, in every state the store operations reach.
\* deleteObject filters only the deleted id out of the selection, so a selected
\* connector removed by the cascade stays selected and the statement fails.
C1_SelectionSubset ==
  \A i \in DOMAIN selectedObjectIds : selectedObjectIds[i] \in Ids(objects)

\* C2 (no dangling connector): after any store operation every connector in
\* objects has a source and a target that are ids of objects in objects.
\* pasteClipboard keeps the original endpoint id when the endpoint is not among
\* the pasted objects, so a connector pasted after its endpoint was deleted
\* dangles and the statement fails.
C2_NoDanglingConnector ==
  \A i \in DOMAIN objects :
    IsConnector(objects[i]) =>
      /\ objects[i].source.objectId \in Ids(objects)
      /\ objects[i].target.objectId \in Ids(objects)

\* C3 (cascading delete is one transition): the step of deleteObject(id),
\* deleteSelectedObjects() or cutSelection() removes the targeted objects and,
\* in the same step, every connector with an endpoint among the objects the
\* step removed; no state shows a target gone and its connector still there.
C3_CascadingDelete ==
  [][ /\ \A id \in AnyId : deleteObject(id) =>
           id \notin Ids(objects') /\ NoRefToRemoved
      /\ (deleteSelectedObjects \/ cutSelection) =>
           /\ \A i \in DOMAIN selectedObjectIds :
                selectedObjectIds[i] \notin Ids(objects')
           /\ NoRefToRemoved ]_vars

\* C3 witness: a delete or cut has just taken an object and a connector that
\* was attached to it off the board, and another object stays
C3_Witness ==
  /\ lastOp \in {"deleteObject", "deleteSelectedObjects", "cutSelection"}
  /\ Len(pastStates) > 0
  /\ Len(objects) > 0
  /\ LET before == Last(pastStates).objects
     IN \E i \in DOMAIN before :
          /\ IsConnector(before[i])
          /\ before[i].id \notin Ids(objects)
          /\ before[i].id \notin Ids(selected(before, selectedObjectIds))
          /\ \/ before[i].source.objectId \notin Ids(objects)
             \/ before[i].target.objectId \notin Ids(objects)
          /\ before[i].source.objectId \in Ids(before)
          /\ before[i].target.objectId \in Ids(before)

\* C4 (undo/redo round trip): from a state S0, N recorded mutations (N <= 100)
\* lead to SN; N calls of undo then bring objects back to S0, and N calls of
\* redo after them bring objects back to SN (with N = 1: redo(undo(S)) = S).
\* rt.n counts the mutations, rt.k the undos not yet redone.
C4_UndoRedoRoundTrip ==
  /\ (rt.phase = "undo" /\ rt.n >= 1 /\ rt.k = rt.n) => objects = rt.base
  /\ (rt.phase = "redo" /\ rt.n >= 1 /\ rt.k = 0) => objects = rt.top

\* C4 witness: two mutations, two undos and two redos have run, and the
\* mutations had changed the board
C4_Witness ==
  /\ rt.phase = "redo"
  /\ rt.n >= 2
  /\ rt.k = 0
  /\ rt.top # rt.base
  /\ objects = rt.top
  /\ Len(pastStates) >= rt.n

\* a local mutation of the open board, as the sync specifications take it
LocalMutation == AddRect \/ \E id \in ObjectIds, u \in DragTo : updateObject(id, u)

\* C5 (debounce coalescing): at most one debounce timer is pending; each
\* mutating call cancels the pending timer and arms one with the full 600 ms,
\* so K calls closer than 600 ms leave one timer; when it fires, exactly one
\* write is issued and no timer remains, and the write carries objects as it
\* is after the K-th call.
C5_DebounceCoalescing ==
  /\ [](Cardinality(timers) <= 1)
  /\ [][ /\ LocalMutation =>
              /\ Cardinality(timers') = 1
              /\ \A t \in timers' : t.left = 600 /\ t.handle = syncTimeout'
         /\ TimerFire =>
              /\ timers' = {}
              /\ inflight' = Append(inflight, [board |-> boardId, objects |-> objects])
         /\ (TimerFire /\ lastOp \in {"addObject", "updateObject"}) =>
              Last(inflight').objects = objects' ]_vars

\* C5 witness: two mutations were made since the history was cleared, no write
\* has completed, and the one write in flight was issued by the timer with
\* the board as the second mutation left it
C5_Witness ==
  /\ lastOp = "timerFire"
  /\ Len(pastStates) = 2
  /\ lastSynced = "null"
  /\ db["b1"] = StoredBoard
  /\ timers = {}
  /\ Len(inflight) = 1
  /\ inflight[1].objects = objects
  /\ objects # Last(pastStates).objects

\* C6 (pause/resume suppression): a remote snapshot applied by the realtime
\* handler (pause, setObjects, resume) adds no entry to pastStates and leaves
\* futureStates as it is, and recording is armed again afterwards; setObjects
\* with a new array while recording is armed adds exactly one entry, the
\* state before the call.
C6_PauseResumeSuppression ==
  [][ /\ RemoteApply =>
           /\ pastStates' = pastStates
           /\ futureStates' = futureStates
           /\ isTracking'
      /\ \A b \in BoardIds : LoadBoard(b) =>
           /\ isTracking
           /\ pastStates' = Append(pastStates, partialize(objects))
           /\ futureStates' = <<>> ]_vars

\* C6 witness: a remote snapshot that changed the board has just been applied
\* while both history stacks held entries
C6_Witness ==
  /\ lastOp = "remoteApply"
  /\ objects # preRemote
  /\ Len(pastStates) > 0
  /\ Len(futureStates) > 0

\* C7 (no feedback loop): applying a remote snapshot arms no timer, cancels
\* none and issues no write; a write is only issued by the debounce timer, and
\* the timer is only armed by a local mutation, so a client that makes no
\* local mutation never writes.
C7_NoFeedbackLoop ==
  [][ /\ RemoteApply =>
           /\ objects' = Head(feed).objects
           /\ UNCHANGED <<syncTimeout, timers, inflight, isSyncing>>
      /\ inflight' # inflight /\ Len(inflight') >= Len(inflight) => TimerFire
      /\ (\E t \in timers' \ timers : t.left = 600) => LocalMutation ]_vars

\* C7 witness: a remote snapshot that changed the board has just been applied
\* while a debounce timer was pending, and the timer is still pending
C7_Witness ==
  /\ lastOp = "remoteApply"
  /\ objects # preRemote
  /\ timers # {}
  /\ inflight = <<>>

\* C8 (pending debounce wins): when a local mutation has armed the timer and a
\* remote snapshot is applied before the timer fires, the write issued by the
\* timer carries the local state from before the remote update.
\* syncToDatabase reads objects when the timer fires, so the write carries the
\* remote snapshot and the statement fails.
C8_PendingDebounceWins ==
  [][ (TimerFire /\ lastOp = "remoteApply") =>
        Last(inflight').objects = preRemote ]_vars

\* the objects a step appended to the board
Appended == SubSeq(objects', Len(objects) + 1, Len(objects'))

\* C9 (paste offset accumulation): after copySelection() with a non-empty
\* selection, the n-th pasteClipboard() appends one clone with a fresh id per
\* clipboard object, puts each non-connector clone at the copied object's
\* position plus (20*n, 20*n), and sets the selection to exactly the ids that
\* paste created.  pasteCount is 0 after the copy and, while the clipboard is
\* a copy, is changed only by a paste, so the n-th paste is the one that
\* starts with pasteCount = n - 1.
C9_PasteOffsetAccumulation ==
  [][ /\ (copySelection /\ Len(selectedObjectIds) > 0) =>
           clipboardMode' = "copy" /\ pasteCount' = 0
      /\ (clipboardMode = "copy" /\ clipboardMode' = "copy" /\ pasteCount' # pasteCount) =>
           pasteClipboard \/ copySelection
      /\ (pasteClipboard /\ clipboardMode = "copy" /\ Len(clipboard) > 0) =>
           LET n      == pasteCount + 1
               shapes == nonConnectors(clipboard)
               new    == Appended
           IN /\ pasteCount' = n
              /\ SubSeq(objects', 1, Len(objects)) = objects
              /\ Len(new) = Len(clipboard)
              /\ Cardinality(Ids(new)) = Len(clipboard)
              /\ Ids(new) \cap (Ids(objects) \cup Ids(clipboard)) = {}
              /\ \A i \in DOMAIN shapes :
                   /\ new[i].type = shapes[i].type
                   /\ new[i].x = shapes[i].x + 20 * n
                   /\ new[i].y = shapes[i].y + 20 * n
              /\ \A i \in DOMAIN new : i > Len(shapes) => IsConnector(new[i])
              /\ selectedObjectIds' = [i \in DOMAIN new |-> new[i].id] ]_vars

\* C9 witness: the second paste of a copied object has just been made; its
\* clone sits 40 to the right of and below the copied object and is selected
C9_Witness ==
  /\ lastOp = "pasteClipboard"
  /\ clipboardMode = "copy"
  /\ pasteCount = 2
  /\ Len(clipboard) = 1
  /\ ~IsConnector(clipboard[1])
  /\ Last(objects).x = clipboard[1].x + 40
  /\ Last(objects).y = clipboard[1].y + 40
  /\ selectedObjectIds = <<Last(objects).id>>

\* C10 (clipboard lifetime): after cutSelection() the first pasteClipboard()
\* empties the clipboard and sets clipboardMode to null, and a paste with the
\* clipboard empty changes nothing; after copySelection() a paste leaves the
\* clipboard and its mode as they are; copySelection() leaves objects and the
\* selection as they are.
C10_ClipboardLifetime ==
  /\ [](clipboardMode = "null" => clipboard = <<>>)
  /\ [][ /\ (pasteClipboard /\ clipboardMode = "cut" /\ Len(clipboard) > 0) =>
              clipboard' = <<>> /\ clipboardMode' = "null"
         /\ (pasteClipboard /\ Len(clipboard) = 0) =>
              UNCHANGED <<storeVars, temporalVars, timerVars, nextId>>
         /\ (pasteClipboard /\ clipboardMode = "copy") =>
              clipboard' = clipboard /\ clipboardMode' = "copy"
         /\ copySelection =>
              objects' = objects /\ selectedObjectIds' = selectedObjectIds ]_vars

\* C10 witness: a cut has been pasted: the clipboard is empty again, its mode
\* is null, and the pasted clone is on the board and selected
C10_Witness ==
  /\ lastOp = "pasteClipboard"
  /\ clipboardMode = "null"
  /\ clipboard = <<>>
  /\ pasteCount = 1
  /\ Len(objects) > 0
  /\ Len(selectedObjectIds) > 0
  /\ \A i \in DOMAIN selectedObjectIds : selectedObjectIds[i] \in Ids(objects)
  /\ Len(pastStates) = 2

\* C11 (idempotent delete): deleteObject(id) with an id that is not in the
\* objects sequence leaves the contents and order of the sequence, the
\* selection and the clipboard unchanged.
\* deleteObject filters the id out of selectedObjectIds whether or not it is
\* on the board, and a selection can hold the id of a connector the cascade
\* removed (C1), so deleting that id again changes the selection and the
\* statement fails.
C11_IdempotentDelete ==
  [][ \A id \in AnyId :
        (deleteObject(id) /\ id \notin Ids(objects)) =>
          /\ objects' = objects
          /\ selectedObjectIds' = selectedObjectIds
          /\ clipboard' = clipboard ]_vars

\* C12 (undo/redo touch only the object sequence): undo() and redo() leave
\* selectedObjectIds, clipboard, clipboardMode, pasteCount, panX, panY, zoom,
\* activeTool and boardId unchanged, and no entry of either history stack has
\* a field other than objects.
C12_UndoRedoTouchOnlyObjects ==
  /\ [](/\ \A i \in DOMAIN pastStates : DOMAIN pastStates[i] = {"objects"}
        /\ \A i \in DOMAIN futureStates : DOMAIN futureStates[i] = {"objects"})
  /\ [][ (undo \/ redo) =>
           UNCHANGED <<selectedObjectIds, clipboard, clipboardMode, pasteCount,
                       panX, panY, zoom, activeTool, boardId>> ]_vars

\* C12 witness: an undo has just changed the board while a selection, a
\* copied clipboard that was pasted once, and a moved and zoomed viewport with
\* another tool were in place
C12_Witness ==
  /\ lastOp = "undo"
  /\ Len(futureStates) > 0
  /\ objects # Last(futureStates).objects
  /\ Len(selectedObjectIds) > 0
  /\ Len(clipboard) > 0
  /\ clipboardMode = "copy"
  /\ pasteCount = 1
  /\ panX = 50
  /\ zoom = 2
  /\ activeTool = "connector"

\* C19 (non-durable operations): setPan, setZoom, setActiveTool, selectObject,
\* setSelectedObjectIds, clearSelection and copySelection leave the objects
\* sequence unchanged, arm no persist timer, and neither add an entry to nor
\* clear either history stack.
C19_NonDurableOperations ==
  [][ lastOp' \in {"setPan", "setZoom", "setActiveTool", "selectObject",
                   "setSelectedObjectIds", "clearSelection", "copySelection"} =>
        /\ objects' = objects
        /\ timers' = timers
        /\ syncTimeout' = syncTimeout
        /\ pastStates' = pastStates
        /\ futureStates' = futureStates ]_vars

\* C19 witness: the zoom has just been changed while both history stacks held
\* entries
C19_Witness ==
  /\ lastOp = "setZoom"
  /\ zoom = 2
  /\ Len(pastStates) > 0
  /\ Len(futureStates) > 0

\* C13 (history bound): the past stack never holds more than 100 entries; a
\* recorded mutation pushes the objects sequence from before the mutation as
\* the newest past entry, drops the oldest entry when 100 are present, and
\* empties the future stack; the entry pushed by hand at the end of a group
\* drag obeys the same rule.
C13_HistoryBound ==
  /\ [](Len(pastStates) <= 100)
  /\ [][ lastOp' \in {"updateObject", "groupDrag"} =>
           /\ pastStates' =
                Append(IF Len(pastStates) = 100 THEN Tail(pastStates) ELSE pastStates,
                       [objects |-> objects])
           /\ futureStates' = <<>> ]_vars

\* C13 witness: the group drag has pushed its entry onto a full past stack:
\* 100 entries are held and the oldest one, the board as loaded, is gone
C13_Witness ==
  /\ lastOp = "groupDrag"
  /\ Len(pastStates) = 100
  /\ \A i \in DOMAIN pastStates : pastStates[i].objects # StoredBoard
  /\ Last(pastStates).objects = objects

\* deleteObject(id) called for each id of ids in turn: the objects left, and
\* the selection left
RECURSIVE deleteEach(_, _)
deleteEach(objs, ids) ==
  IF ids = <<>> THEN objs ELSE deleteEach(deleteFilter(objs, Head(ids)), Tail(ids))

RECURSIVE unselectEach(_, _)
unselectEach(sel, ids) ==
  IF ids = <<>> THEN sel
  ELSE unselectEach(SelectSeq(sel, LAMBDA sid : sid # Head(ids)), Tail(ids))

\* C16 (deleteSelected equals batch delete): with a non-empty selection,
\* deleteSelectedObjects() leaves the same objects sequence and the same
\* (empty) selection as deleteObject(id) called for each selected id in turn;
\* with an empty selection it changes no state and arms no persist timer.
C16_DeleteSelectedIsBatchDelete ==
  [][ deleteSelectedObjects =>
        IF Len(selectedObjectIds) > 0
        THEN /\ objects' = deleteEach(objects, selectedObjectIds)
             /\ selectedObjectIds' = unselectEach(selectedObjectIds, selectedObjectIds)
             /\ selectedObjectIds' = <<>>
        ELSE UNCHANGED <<storeVars, viewVars, temporalVars, timerVars, nextId>> ]_vars

\* C16 witness: deleteSelectedObjects has just removed at least two objects,
\* a connector removed by the cascade or by selection among them, and left
\* others on the board
C16_Witness ==
  /\ lastOp = "deleteSelectedObjects"
  /\ selectedObjectIds = <<>>
  /\ Len(pastStates) > 0
  /\ Len(objects) > 0
  /\ LET before == Last(pastStates).objects
     IN /\ Len(before) >= Len(objects) + 2
        /\ \E i \in DOMAIN before : IsConnector(before[i]) /\ before[i].id \notin Ids(objects)

\* C17 (duplicate equals copy+paste without clipboard effect): with a
\* non-empty selection, duplicateSelection() leaves clipboard, clipboardMode
\* and pasteCount unchanged, and appends the same new objects (offset +20,+20,
\* connector endpoints remapped) and selects the same ids as copySelection()
\* followed by one pasteClipboard() would, also when a connector is itself
\* selected.  The comparison hands both the same fresh ids.
\* duplicateSelection skips the selected connectors and clones only the
\* implicit ones, while copy and paste clone the selected connectors too, so
\* the statement fails when a connector is selected.
C17_DuplicateIsCopyPaste ==
  [][ (duplicateSelection /\ Len(selectedObjectIds) > 0) =>
        LET clip     == selected(objects, selectedObjectIds)
                          \o implicitConnectors(objects, selectedObjectIds)
            viaPaste == pasteNewObjects(clip, 0, nextId)
        IN /\ UNCHANGED <<clipboard, clipboardMode, pasteCount>>
           /\ Appended = viaPaste
           /\ selectedObjectIds' = [i \in DOMAIN viaPaste |-> viaPaste[i].id] ]_vars

\* C20 (only the local user's own actions are undoable): however local
\* mutations and remote updates interleave, undo() never discards an object
\* change that arrived in a remote update, and redo() never re-applies a
\* remote snapshot.  The object with id RemoteId is made by another client
\* and reaches this client only in a remote snapshot.
\* A history entry is the whole objects sequence: undo after a remote update
\* restores the sequence from before the last local mutation and drops what
\* the update brought, and puts the remote snapshot on the future stack, from
\* where redo applies it again; the statement fails.
C20_OnlyLocalActionsUndoable ==
  [][ /\ undo => (RemoteId \in Ids(objects) => RemoteId \in Ids(objects'))
      /\ redo => (RemoteId \notin Ids(objects) => RemoteId \notin Ids(objects')) ]_vars

\* a step in which an update settles with an error: syncToDatabase resumes
\* and no change notification is produced
FailedWrite == lastOp' = "syncSettle" /\ Len(inflight') < Len(inflight) /\ feed' = feed

\* a step in which an update of the board row is issued
WriteIssued == Len(inflight') > Len(inflight)

FailureLeavesStateIntact ==
  FailedWrite =>
    /\ UNCHANGED <<objects, selectedObjectIds, clipboard, pastStates, futureStates>>
    /\ lastSynced' = lastSynced
    /\ isSyncing' = FALSE
    /\ UNCHANGED <<syncTimeout, timers>>
    /\ ~WriteIssued

CarriesCurrentObjects ==
  inflight'[Len(inflight')] = [board |-> boardId', objects |-> objects']

\* C14 (as stated): a failed write leaves objects, selection, clipboard and
\* both history stacks unchanged, lastSynced keeps its value, isSyncing
\* returns to false and the failure starts no retry and no timer; a write is
\* issued only by the debounce cycle of a mutation and carries the
\* then-current objects sequence.
C14_FailedWriteOnlyDebounceRetries ==
  [][ /\ FailureLeavesStateIntact
      /\ WriteIssued => (lastOp' = "timerFire" /\ CarriesCurrentObjects) ]_vars

\* C14 (amended): a failed write leaves objects, selection, clipboard and
\* both history stacks unchanged, lastSynced keeps its value, isSyncing
\* returns to false and the failure starts no retry and no timer; a write is
\* issued only by a later call of syncToDatabase, made by the debounce timer
\* of a mutation or by the user's Save button, and carries the then-current
\* objects sequence.
C14_FailedWriteLeavesStateIntact ==
  [][ /\ FailureLeavesStateIntact
      /\ WriteIssued => (lastOp' \in {"timerFire", "manualSave"} /\ CarriesCurrentObjects) ]_vars

\* an edit whose debounced write failed (no timer left, nothing synced yet)
\* is being written again by the Save button
C14_Witness ==
  /\ lastOp = "manualSave"
  /\ timers = {}
  /\ lastSynced = "null"
  /\ isSyncing
  /\ objects # StoredBoard
  /\ inflight = <<[board |-> boardId, objects |-> objects]>>
  /\ db[boardId] = StoredBoard

\* the objects sequences the history stacks hold
HistorySnapshots ==
  {pastStates[i].objects : i \in DOMAIN pastStates}
    \cup {futureStates[i].objects : i \in DOMAIN futureStates}

\* C15: when the sync effect runs for the board just loaded, both history
\* stacks are empty; afterwards the history holds only objects sequences the
\* store has held since that moment, and an undo or redo sets objects to one
\* of them, never to a snapshot of the board left behind or to one older
\* than the loaded snapshot.
C15_HistoryNeverCrossesBoards ==
  /\ [](BoardOpen => HistorySnapshots \subseteq seen)
  /\ [][ /\ lastOp' = "syncEffect" => (pastStates' = <<>> /\ futureStates' = <<>>)
         /\ lastOp' \in {"undo", "redo"} => objects' \in seen ]_vars

\* on board b2, reached from a board whose history held the first new
\* rectangle, the only edit made since the switch has been undone
C15_Witness ==
  /\ boardId = "b2"
  /\ channel = "b2"
  /\ lastOp = "undo"
  /\ objects = db["b2"]
  /\ seen = {db["b2"], <<Rect(FirstFreshId + 1, 100, 100)>>}
  /\ pastStates = <<>>
  /\ futureStates = <<partialize(<<Rect(FirstFreshId + 1, 100, 100)>>)>>

\* what a failed command translation must look like: the error phase with a
\* message, the board untouched, the call over and none started, and the
\* timeout of the error display scheduled
SurfacedAsError ==
  /\ phase' = "error"
  /\ errorMessage' # ""
  /\ UNCHANGED <<objects, selectedObjectIds, pastStates, futureStates>>
  /\ Len(calls') = Len(calls) - 1
  /\ phaseTimers' = Append(phaseTimers, ERROR_DISPLAY)

\* C18: when the service is unreachable, answers non-OK or malformed, or
\* returns zero operations, processCommand sets the phase to 'error' with a
\* message, mutates no board state and starts no retry, and the timeout of
\* the display duration sets the phase back to 'idle'.
C18_TranslationFailureIsTransientError ==
  [][ /\ lastOp' \in Outcomes \ {"toolCalls"} => SurfacedAsError
      /\ lastOp' = "phaseTimerFire" => phase' = "idle" ]_vars

\* the positions of the objects that differ between two objects sequences
MovedIds(before, after) ==
  {before[i].id : i \in {j \in DOMAIN before : j \in DOMAIN after /\ before[j] # after[j]}}

\* C21 (group drag is one undo step): handleGroupDragEnd pushes one entry on
\* the past stack, the objects sequence before the drag, and empties the
\* future stack, however many objects the drag moves; after n group drags,
\* n calls of undo (one for a single drag) bring every moved object back to
\* its position before the drag.
C21_GroupDragIsOneUndoStep ==
  /\ [][ lastOp' = "groupDrag" =>
           /\ pastStates' = Append(IF Len(pastStates) >= limit THEN Tail(pastStates)
                                                              ELSE pastStates,
                                   partialize(objects))
           /\ futureStates' = <<>> ]_vars
  /\ []((rt.phase = "undo" /\ rt.n >= 1 /\ rt.k = rt.n) => objects = rt.base)

\* one drag of a selection moved two objects, and one undo put both back
C21_Witness ==
  /\ rt.phase = "undo"
  /\ rt.n = 1
  /\ rt.k = 1
  /\ lastOp = "undo"
  /\ Cardinality(MovedIds(rt.base, rt.top)) >= 2
  /\ objects = rt.base
  /\ futureStates = <<partialize(rt.top)>>

\* every connector among the objects a step appended joins two of the
\* non-connector objects the same step appended
ConnectorsJoinBatch ==
  \A i \in DOMAIN Appended :
    IsConnector(Appended[i]) =>
      /\ Appended[i].source.objectId \in Ids(nonConnectors(Appended))
      /\ Appended[i].target.objectId \in Ids(nonConnectors(Appended))

\* C22 (connector with an endpoint outside the batch is dropped): every
\* connector that pasteClipboard or duplicateSelection creates has a source
\* and a target that are ids of clones created by the same call; a connector
\* with an endpoint that is not cloned in the batch is not cloned.
C22_ConnectorOutsideBatchDropped ==
  [][ (pasteClipboard \/ duplicateSelection) => ConnectorsJoinBatch ]_vars

\* the store operations that replace the objects array
MutatingOps == {"addObject", "updateObject", "deleteObject", "deleteSelectedObjects",
                "cutSelection", "pasteClipboard", "duplicateSelection",
                "createFrameFromSelection", "rearrangeObjects", "clearObjects"}

\* a step of a mutating operation (lastOp keeps its value while time passes)
MutationStep == lastOp' \in MutatingOps /\ ~Tick

\* the debounce timer has just fired and its write carries the current objects
WriteOfCurrentObjects ==
  /\ lastOp = "timerFire"
  /\ inflight # <<>>
  /\ Last(inflight) = [board |-> boardId, objects |-> objects]

\* C23 (persist liveness): every mutating operation leaves exactly one
\* debounce timer armed with the full delay; and if from some point on no
\* mutating operation is called, then whenever a timer is pending on an open
\* board, a write keyed by boardId that carries the objects sequence of that
\* moment is eventually issued.
C23_PersistLiveness ==
  /\ [][ MutationStep =>
           timers' = {[handle |-> syncTimeout', left |-> DEBOUNCE]} ]_vars
  /\ (<>[][~MutationStep]_vars
        => []((BoardOpen /\ timers # {}) => <>WriteOfCurrentObjects))

\* the write of a board changed by a frame drawn around a selection
C23_Witness ==
  /\ WriteOfCurrentObjects
  /\ timers = {}
  /\ Len(objects) > 0
  /\ Head(objects).type = "frame"
  /\ objects # StoredBoard

\* C24 (recording is armed between events): isTracking is true initially and
\* in every state between two events, the handlers that call pause() having
\* called resume() before they return; so a local mutation always runs with
\* recording armed and pushes the objects sequence it replaced.
C24_ArmedBetweenEvents ==
  /\ [](isTracking = TRUE)
  /\ [][ lastOp' = "updateObject" =>
           isTracking /\ Last(pastStates') = partialize(objects) ]_vars

\* a local edit recorded after a remote snapshot was applied and a selection
\* was dragged
C24_Witness ==
  /\ lastOp = "updateObject"
  /\ isTracking
  /\ preRemote = StoredBoard
  /\ RemoteId \in Ids(objects)
  /\ Len(pastStates) = 2
  /\ \E i \in DOMAIN Last(pastStates).objects :
       Last(pastStates).objects[i].id = RemoteId /\ Last(pastStates).objects[i].y = 260

\* C25 (no cross-board write): every write syncToDatabase issues stores
\* under board id b an objects sequence that was loaded, edited or received
\* for b, and no write is issued while boardId is null.
C25_NoCrossBoardWrite ==
  \A i \in DOMAIN inflight :
    /\ inflight[i].board # "null"
    /\ <<inflight[i].board, inflight[i].objects>> \in seen

Quiescent ==
  /\ BoardOpen
  /\ timers = {} /\ inflight = <<>> /\ feed = <<>>
  /\ peer.left = NoTimer /\ peer.inflight = <<>> /\ peer.feed = <<>>

\* C26 (convergence on quiescence): with two clients on one board, successful
\* writes and in-order notifications, whenever no debounce timer is pending,
\* no write is in flight and no notification is queued, the objects of both
\* clients equal the persisted row.
C26_ConvergedWhenQuiescent ==
  Quiescent => objects = db[boardId] /\ peer.objects = db[boardId]

\* a step of undo() or redo()
RestoreStep == lastOp' \in {"undo", "redo"} /\ ~Tick

RestoreArmsNothing ==
  RestoreStep => UNCHANGED <<syncTimeout, timers, inflight, db, isSyncing, lastSynced>>

\* a step in which a due debounce timer is taken off the event loop
TimerConsumed == \E t \in timers : t.left = 0 /\ timers' = timers \ {t}

\* a write of the sequence undo() or redo() left in the store
RestoredWrite == lastOp \in {"undo", "redo"} /\ WriteIssued /\ CarriesCurrentObjects

\* C27 (as stated): undo() and redo() replace the objects sequence without
\* arming the debounce timer and without issuing a write; the restored
\* sequence is written only by a debounce timer, pending at the undo/redo or
\* armed by a later mutation.
C27_RestoredOnlyByDebounce ==
  [][ /\ RestoreArmsNothing
      /\ RestoredWrite => TimerConsumed ]_vars

\* C27 (amended): undo() and redo() replace the objects sequence without
\* arming the debounce timer and without issuing a write; the restored
\* sequence is written only by a debounce timer, pending at the undo/redo or
\* armed by a later mutation, or by the user's Save button.
C27_UndoRedoNotPersisted ==
  [][ /\ RestoreArmsNothing
      /\ RestoredWrite => (TimerConsumed \/ lastOp' = "manualSave") ]_vars

C27_Witness ==
  /\ lastOp = "undo"
  /\ futureStates # <<>>
  /\ objects = StoredBoard
  /\ db[boardId] # objects
  /\ timers = {} /\ inflight = <<>>

\* a call of updateObject, deleteObject or rearrangeObjects that names only
\* ids absent from the objects sequence
AbsentIdCall ==
  \/ \E id \in AnyId \ Ids(objects), u \in DragTo : updateObject(id, u)
  \/ \E id \in AnyId \ Ids(objects) : deleteObject(id)
  \/ \E positions \in Positions :
        /\ \A i \in DOMAIN positions : positions[i].id \notin Ids(objects)
        /\ rearrangeObjects(positions)

CountsAsChange ==
  /\ isTracking => /\ pastStates' = Append(pastStates, partialize(objects))
                    /\ futureStates' = <<>>
  /\ timers' = {[handle |-> syncTimeout', left |-> DEBOUNCE]}

\* C28 (a mutation naming an absent id still counts as a change): updateObject,
\* deleteObject or rearrangeObjects called with an id that is not in objects
\* leaves every object unchanged but, with recording armed, pushes one past
\* entry, empties the future stack and arms the debounce timer.
C28_AbsentIdStillAChange ==
  [][ AbsentIdCall => (objects' = objects /\ CountsAsChange) ]_vars

\* the same for updateObject and rearrangeObjects only
AbsentIdUpdateStillAChange ==
  [][ (AbsentIdCall /\ lastOp' # "deleteObject") => (objects' = objects /\ CountsAsChange) ]_vars

\* deleteObject with an absent id records and arms the timer, whatever it removes
AbsentIdDeleteRecorded ==
  [][ (AbsentIdCall /\ lastOp' = "deleteObject") => CountsAsChange ]_vars

\* C29 (isSyncing tracks in-flight writes): whenever a write issued by
\* syncToDatabase has not completed, isSyncing is true; it is false only when
\* no write is in flight.
C29_SyncingWhileInFlight ==
  inflight # <<>> => isSyncing = TRUE

\* C30 (the AI phase is never idle while a command is in flight): from the
\* moment processCommand sets the phase to 'thinking' until that call sets
\* 'done' or 'error', the phase is 'thinking' or 'creating'.
C30_BusyWhileCommandInFlight ==
  calls # <<>> => phase \in {"thinking", "creating"}

====
